---- MODULE Spec2Model ----
(***************************************************************************)
(* The focus-detection WebSocket service of src/main.py.                   *)
(*                                                                         *)
(* One handler (websocket_endpoint) runs per connection.  Its locals are   *)
(* the session: calibration_frames, calibration_angles, the three baseline *)
(* angles, and the per-iteration image_data and status.  process_frame is  *)
(* a function of the frame; the outcomes of the external collaborators     *)
(* (base64 decoding, cv2.imdecode, the face mesh, cv2.solvePnP) are fields *)
(* of the frame the client sends.  The face mesh is one object for all     *)
(* handlers and follows a face from call to call (face_mesh).              *)
(*                                                                         *)
(* Angles are counted in tenths of a degree.  The poses a client can show  *)
(* are whole degrees, so the mean of the calibration angles is an exact    *)
(* number of tenths and integer arithmetic computes it without rounding.   *)
(* The mean of angles that are no whole degrees is computed in binary64    *)
(* (np_mean, SpecMean).                                                     *)
(*                                                                         *)
(* Spec runs one client in depth, SpecTwo two clients interleaved,         *)
(* SpecShared two clients in front of the shared mesh, and SpecMean the    *)
(* mean of main.py:139-141 on floats.                                       *)
(***************************************************************************)
EXTENDS Integers, Sequences, FiniteSets, TLC

VARIABLES
    pc,                 \* where each handler stands
    calibration_frames, \* main.py:122
    calibration_angles, \* main.py:123
    baseline_pitch,     \* main.py:139, <<>> while unbound
    baseline_yaw,       \* main.py:140, <<>> while unbound
    baseline_roll,      \* main.py:141, <<>> while unbound
    image_data,         \* main.py:126, the frame in the handler, else <<>>
    status,             \* main.py:130/142/156/158, computed and unsent, else <<>>
    error,              \* the exception that left the handler, <<>> if none
    estimates,          \* pose triples process_frame returned on this connection
    replies,            \* messages sent since the latest frame was received
    finalized,          \* times the baseline was computed on this connection
    calculating,        \* "Calculating Face Angles" sent on this connection
    classified,         \* a classification was sent on this connection
    previous,           \* what an accepted handler's connection held before,
                        \* kept until its first frame
    face_mesh,          \* main.py:23, one for all handlers: whether the
                        \* mesh follows a face from the frame before
    averaged,           \* an angle, and np.mean of ten of it once taken
    head,               \* the pose the client's subject holds
    movesLeft,          \* pose changes still explored on this connection
    unsolvedLeft,       \* failing pose solves still explored on this connection
    clients,            \* the clients that connect
    budget              \* the bounds of the exploration in force

vars == <<pc, calibration_frames, calibration_angles, baseline_pitch,
          baseline_yaw, baseline_roll, image_data, status, error, estimates,
          replies, finalized, calculating, classified, previous, face_mesh,
          averaged, head, movesLeft, unsolvedLeft, clients, budget>>

session_vars == <<calibration_frames, calibration_angles, baseline_pitch,
                  baseline_yaw, baseline_roll>>

env_vars == <<head, movesLeft, unsolvedLeft, clients, budget>>

sent_vars == <<calculating, classified>>

----------------------------------------------------------------------------
(* Bounds of the exploration *)

MaxMoves == 1
MaxUnsolved == 1
MaxEstimates == 12

(* The same for the first of two clients that run at once; the second     *)
(* client holds one pose and every pose solve on its frames succeeds.      *)
TwoMoves == 1
TwoUnsolved == 0
TwoEstimates == 11

(* The estimates per session where two clients share the mesh. *)
SharedEstimates == 2

(* The angles whose mean is taken in binary64: 0.1 to MaxTenths / 10. *)
MaxTenths == 900

(* Program constants *)

CALIBRATION_FRAMES == 10
FOCUS_LIMIT == 40

(* The significand of a Python float, main.py:94-96. *)
MANT_DIG == 53

Sessions == {"s1", "s2"}

Deg(d) == d * 10

Poses ==
    { <<Deg(0), Deg(0), Deg(0)>>,
      <<Deg(50), Deg(0), Deg(0)>>,
      <<Deg(0), Deg(50), Deg(0)>>,
      <<Deg(0), Deg(0), Deg(50)>> }

----------------------------------------------------------------------------
(* Python values.  A str is a sequence of words, so that a prefix can be   *)
(* tested; a tuple carries the three angles; None carries nothing.         *)

Str(words) == [type |-> "str", val |-> words]
Tuple(p) == [type |-> "tuple", val |-> p]
None == [type |-> "NoneType", val |-> <<>>]

Unbound == <<>>
Bound(v) == <<v>>
IsBound(x) == Len(x) = 1
ValueOf(x) == x[1]

POSE_NOT_DETECTED == <<"Pose", "Not", "Detected">>
CALCULATING == <<"Calculating", "Face", "Angles">>
FOCUSED == <<"Focused">>
NOT_FOCUSED == <<"Not", "Focused">>
INVALID_FRAME == <<"Error:", "Invalid", "frame">>
DecodingFailed(e) == <<"Error:", "Decoding", "Base64", "failed", "-", e>>

(* The frames a client can send: what each collaborator makes of it.      *)
(* payload: how main.py:36-38 fares on the text; image: what cv2.imdecode  *)
(* returns for the bytes ("none" for bytes that are no image, as its       *)
(* contract says); faces: the faces the mesh finds; solved: the success    *)
(* flag of cv2.solvePnP; pose: the angles cv2.RQDecomp3x3 reads off;       *)
(* faint: the face is one that a detection on the frame alone misses and   *)
(* that the mesh finds when it follows a face from the frame before.       *)
Frame(payload, image, faces, solved, pose) ==
    [payload |-> payload, image |-> image, faces |-> faces,
     solved |-> solved, pose |-> pose, faint |-> FALSE]

Rest == <<Deg(0), Deg(0), Deg(0)>>

FailingFrames ==
    { Frame("data_without_comma", "none", 0, FALSE, Rest),
      Frame("bad_padding", "none", 0, FALSE, Rest),
      Frame("base64", "none", 0, FALSE, Rest),
      Frame("base64", "bgr", 0, FALSE, Rest) }

UnsolvedFrame == Frame("base64", "bgr", 1, FALSE, Rest)

PoseFrame(p) == Frame("base64", "bgr", 1, TRUE, p)

FaintFrame == [Frame("base64", "bgr", 0, TRUE, Rest) EXCEPT !.faint = TRUE]

----------------------------------------------------------------------------
(* process_frame, main.py:31-106 *)

b64decode(payload) ==
    CASE payload = "data_without_comma" ->
             [raised |-> TRUE,
              e |-> "not enough values to unpack (expected 2, got 1)"]
      [] payload = "bad_padding" ->
             [raised |-> TRUE, e |-> "Incorrect padding"]
      [] OTHER -> [raised |-> FALSE, e |-> ""]

(* main.py:23-29 and 50.  The mesh is made with static_image_mode=False:  *)
(* it takes its inputs for one video stream, detects until it has a face   *)
(* and then follows that face from one call to the next until it loses it. *)
process(mesh, f) ==
    IF f.faint /\ mesh = "tracking" THEN [f EXCEPT !.faces = 1] ELSE f

(* The state in which a call of process leaves the mesh. *)
tracker(mesh, f) ==
    IF process(mesh, f).faces > 0 THEN "tracking" ELSE "detecting"

solvePnP(f) == f.solved

(* process_frame without the check of main.py:52-53. *)
process_frame_no_face_check(f) ==
    IF b64decode(f.payload).raised
    THEN Str(DecodingFailed(b64decode(f.payload).e))
    ELSE IF f.image = "none"
    THEN Str(INVALID_FRAME)
    ELSE IF solvePnP(f)
    THEN Tuple(f.pose)
    ELSE None

(* process_frame with a bare return in the handler of main.py:39-40. *)
process_frame_silent_decode(f) ==
    IF b64decode(f.payload).raised
    THEN None
    ELSE IF f.image = "none"
    THEN Str(INVALID_FRAME)
    ELSE IF f.faces = 0
    THEN Str(POSE_NOT_DETECTED)
    ELSE IF solvePnP(f)
    THEN Tuple(f.pose)
    ELSE None

process_frame(f) ==
    IF b64decode(f.payload).raised
    THEN Str(DecodingFailed(b64decode(f.payload).e))
    ELSE IF f.image = "none"
    THEN Str(INVALID_FRAME)
    ELSE IF f.faces = 0
    THEN Str(POSE_NOT_DETECTED)
    ELSE IF solvePnP(f)
    THEN Tuple(f.pose)
    ELSE None

----------------------------------------------------------------------------
(* websocket_endpoint, main.py:114-162 *)

(* main.py:129 taking everything but a tuple for a status. *)
IsStr_not_tuple(r) == r.type # "tuple"

IsStr(r) == r.type = "str"

(* main.py:133 stopping one frame early. *)
Calibrating_off_by_one(cf) == cf > 1

(* main.py:133 never stopping. *)
Calibrating_always(cf) == cf >= 0

Calibrating(cf) == cf # 0

(* main.py:134 left out. *)
Decrement_skipped(cf) == cf

(* main.py:134 starting over instead of reaching 0. *)
Decrement_wrapping(cf) == IF cf = 1 THEN CALIBRATION_FRAMES ELSE cf - 1

Decrement(cf) == cf - 1

(* main.py:137 taking the last two slots for the last. *)
LastSlot_early(cf) == cf <= 1

LastSlot(cf) == cf = 0

Subscriptable(r) == r.type = "tuple"

RECURSIVE Sum(_)
Sum(xs) == IF xs = <<>> THEN 0 ELSE Head(xs) + Sum(Tail(xs))

(* np.mean of whole degrees counted in tenths: its sum and its quotient   *)
(* are exact in binary64, so the integers compute it; np_mean below is     *)
(* the mean of any float.                                                   *)
mean(xs) == Sum(xs) \div Len(xs)

(* The floats of main.py:94-96 and their mean, main.py:139-141, in        *)
(* binary64.  A float is kept as the integer it is in a unit fine enough  *)
(* for every value of one computation (scaling by a power of two changes  *)
(* no rounding), the integer as four limbs of 20 bits, lowest first.      *)
Limb == 2^20

RECURSIVE Carry(_, _)
Carry(ds, c) ==
    IF ds = <<>> THEN <<>>
    ELSE <<(Head(ds) + c) % Limb>> \o Carry(Tail(ds), (Head(ds) + c) \div Limb)

Add(a, b) == Carry([i \in 1..Len(a) |-> a[i] + b[i]], 0)

Reverse(a) == [i \in 1..Len(a) |-> a[Len(a) + 1 - i]]

(* Quotient and remainder by a small d, highest limb first. *)
RECURSIVE LongDiv(_, _, _)
LongDiv(ds, d, r) ==
    IF ds = <<>> THEN [q |-> <<>>, r |-> r]
    ELSE LET cur == r * Limb + Head(ds)
             rest == LongDiv(Tail(ds), d, cur % d)
         IN  [q |-> <<cur \div d>> \o rest.q, r |-> rest.r]

RECURSIVE Bits(_)
Bits(v) == IF v = 0 THEN 0 ELSE 1 + Bits(v \div 2)

RECURSIVE BitLength(_)
BitLength(a) ==
    IF a = <<>> THEN 0
    ELSE IF BitLength(Tail(a)) > 0 THEN 20 + BitLength(Tail(a))
    ELSE Bits(Head(a))

(* a, followed by a nonzero fraction if sticky, rounded to MANT_DIG bits:  *)
(* to nearest, ties to even.                                                *)
Round(a, sticky) ==
    LET k == BitLength(a) - MANT_DIG IN
    IF k <= 0 THEN a
    ELSE LET low == a[1] % 2^k
             half == 2^(k - 1)
             odd == (a[1] \div 2^k) % 2 = 1
             up == low > half \/ (low = half /\ (sticky \/ odd))
         IN  Carry(<<a[1] - low + (IF up THEN 2^k ELSE 0)>> \o Tail(a), 0)

fadd(a, b) == Round(Add(a, b), FALSE)

fdiv(a, d) ==
    LET qr == LongDiv(Reverse(a), d, 0) IN Round(Reverse(qr.q), qr.r # 0)

Zero == <<0, 0, 0, 0>>

(* The float nearest to tenths / 10, for tenths below 1024. *)
double(tenths) == fdiv(<<0, 0, tenths * 2^(20 - Bits(tenths)), 0>>, 10)

(* numpy's sum of a contiguous array of 8 to 128 floats: eight running    *)
(* sums, added in pairs, then the elements left over one by one.           *)
pairwise_sum(xs) ==
    LET r == [j \in 1..8 |-> xs[j]]
        res == fadd(fadd(fadd(r[1], r[2]), fadd(r[3], r[4])),
                    fadd(fadd(r[5], r[6]), fadd(r[7], r[8])))
    IN  fadd(fadd(res, xs[9]), xs[10])

(* The sum taken left to right, as a loop or sum() takes it. *)
RECURSIVE sequential_sum(_, _)
sequential_sum(xs, res) ==
    IF xs = <<>> THEN res ELSE sequential_sum(Tail(xs), fadd(res, Head(xs)))

Orders == {"pairwise", "sequential"}

(* The angles from first to last tenths, each before its mean is taken in *)
(* one of the orders.                                                       *)
Angles(first, last, orders) ==
    {[tenths |-> n, angle |-> double(n), order |-> o, mean |-> Unbound] :
         n \in first..last, o \in orders}

(* np.mean dividing by one less than the number of elements. *)
np_mean_ddof(xs, order) ==
    fdiv(IF order = "pairwise"
         THEN fadd(Zero, pairwise_sum(xs))
         ELSE sequential_sum(xs, Zero),
         Len(xs) - 1)

np_mean(xs, order) ==
    fdiv(IF order = "pairwise"
         THEN fadd(Zero, pairwise_sum(xs))
         ELSE sequential_sum(xs, Zero),
         Len(xs))

Column(angles, i) == [k \in 1..Len(angles) |-> angles[k].val[i]]

Abs(x) == IF x < 0 THEN -x ELSE x

(* main.py:152 with the limit included. *)
WithinLimit_inclusive(relative_pitch, relative_yaw, relative_roll) ==
    /\ relative_pitch <= Deg(FOCUS_LIMIT)
    /\ relative_yaw <= Deg(FOCUS_LIMIT)
    /\ relative_roll <= Deg(FOCUS_LIMIT)

WithinLimit(relative_pitch, relative_yaw, relative_roll) ==
    /\ relative_pitch < Deg(FOCUS_LIMIT)
    /\ relative_yaw < Deg(FOCUS_LIMIT)
    /\ relative_roll < Deg(FOCUS_LIMIT)

Classify(p, bp, by, br) ==
    IF WithinLimit(Abs(p[1] - bp), Abs(p[2] - by), Abs(p[3] - br))
    THEN FOCUSED
    ELSE NOT_FOCUSED

(* An exception other than WebSocketDisconnect leaves the handler. *)
Raise(s, e) ==
    /\ pc' = [pc EXCEPT ![s] = "crashed"]
    /\ error' = [error EXCEPT ![s] = <<e>>]

(* main.py:129-130 going back to receive_text without main.py:160. *)
TextResult_continue(s, r) ==
    /\ IsStr(r)
    /\ status' = [status EXCEPT ![s] = r.val]
    /\ pc' = [pc EXCEPT ![s] = "receive"]
    /\ UNCHANGED <<session_vars, error, finalized>>

(* main.py:129-130: a str result is the status. *)
TextResult(s, r) ==
    /\ IsStr(r)
    /\ status' = [status EXCEPT ![s] = r.val]
    /\ pc' = [pc EXCEPT ![s] = "send"]
    /\ UNCHANGED <<session_vars, error, finalized>>

(* main.py:133-142 with calibration_frames still above 0 afterwards. *)
Collect(s, r) ==
    /\ ~IsStr(r)
    /\ Calibrating(calibration_frames[s])
    /\ ~LastSlot(Decrement(calibration_frames[s]))
    /\ calibration_frames' =
           [calibration_frames EXCEPT ![s] = Decrement(@)]
    /\ calibration_angles' = [calibration_angles EXCEPT ![s] = Append(@, r)]
    /\ status' = [status EXCEPT ![s] = CALCULATING]
    /\ pc' = [pc EXCEPT ![s] = "send"]
    /\ UNCHANGED <<baseline_pitch, baseline_yaw, baseline_roll, error,
                   finalized>>

(* main.py:133-142 when calibration_frames reaches 0: the baseline. *)
Finalize(s, r) ==
    /\ ~IsStr(r)
    /\ Calibrating(calibration_frames[s])
    /\ LastSlot(Decrement(calibration_frames[s]))
    /\ calibration_frames' =
           [calibration_frames EXCEPT ![s] = Decrement(@)]
    /\ calibration_angles' = [calibration_angles EXCEPT ![s] = Append(@, r)]
    /\ LET angles == Append(calibration_angles[s], r) IN
       IF \A k \in 1..Len(angles) : Subscriptable(angles[k])
       THEN /\ baseline_pitch' =
                   [baseline_pitch EXCEPT ![s] = Bound(mean(Column(angles, 1)))]
            /\ baseline_yaw' =
                   [baseline_yaw EXCEPT ![s] = Bound(mean(Column(angles, 2)))]
            /\ baseline_roll' =
                   [baseline_roll EXCEPT ![s] = Bound(mean(Column(angles, 3)))]
            /\ finalized' = [finalized EXCEPT ![s] = @ + 1]
            /\ status' = [status EXCEPT ![s] = CALCULATING]
            /\ pc' = [pc EXCEPT ![s] = "send"]
            /\ UNCHANGED error
       ELSE /\ Raise(s, "TypeError")
            /\ UNCHANGED <<baseline_pitch, baseline_yaw, baseline_roll,
                           finalized, status>>

(* main.py:144-158: the classification against the baseline. *)
Compare(s, r) ==
    /\ ~IsStr(r)
    /\ ~Calibrating(calibration_frames[s])
    /\ UNCHANGED <<session_vars, finalized>>
    /\ IF ~Subscriptable(r)
       THEN Raise(s, "TypeError") /\ UNCHANGED status
       ELSE IF ~(IsBound(baseline_pitch[s]) /\ IsBound(baseline_yaw[s])
                 /\ IsBound(baseline_roll[s]))
       THEN Raise(s, "UnboundLocalError") /\ UNCHANGED status
       ELSE /\ status' = [status EXCEPT ![s] =
                   Classify(r.val, ValueOf(baseline_pitch[s]),
                            ValueOf(baseline_yaw[s]),
                            ValueOf(baseline_roll[s]))]
            /\ pc' = [pc EXCEPT ![s] = "send"]
            /\ UNCHANGED error

(* The frames the client can send now, within the bounds. *)
Sendable(s, f) ==
    \/ f \in budget.failing
    \/ f \in budget.faint /\ estimates[s] < budget.estimates[s]
    \/ f = UnsolvedFrame /\ unsolvedLeft[s] > 0
    \/ /\ \E p \in budget.poses : f = PoseFrame(p)
       /\ estimates[s] < budget.estimates[s]
       /\ f.pose # head[s] => movesLeft[s] > 0

Frames ==
    budget.failing \cup budget.faint \cup {UnsolvedFrame}
        \cup {PoseFrame(p) : p \in budget.poses}

(* What the connection of s holds: nothing before the first accept, else  *)
(* the locals the handler has reached.                                     *)
Held(s) ==
    IF pc[s] = "idle" THEN "nothing"
    ELSE IF IsBound(baseline_pitch[s]) THEN "calibrated"
    ELSE "calibrating"

(* main.py:122-123 kept in a store that outlives the handler. *)
Connect_resume(s) ==
    /\ pc[s] \in {"idle", "closed", "crashed"}
    /\ s \in clients
    /\ pc' = [pc EXCEPT ![s] = "receive"]
    /\ image_data' = [image_data EXCEPT ![s] = Unbound]
    /\ status' = [status EXCEPT ![s] = Unbound]
    /\ error' = [error EXCEPT ![s] = <<>>]
    /\ estimates' = [estimates EXCEPT ![s] = 0]
    /\ replies' = [replies EXCEPT ![s] = 0]
    /\ finalized' = [finalized EXCEPT ![s] = 0]
    /\ calculating' = [calculating EXCEPT ![s] = 0]
    /\ classified' = [classified EXCEPT ![s] = FALSE]
    /\ previous' = [previous EXCEPT ![s] = Held(s)]
    /\ movesLeft' = [movesLeft EXCEPT ![s] = budget.moves[s]]
    /\ unsolvedLeft' = [unsolvedLeft EXCEPT ![s] = budget.unsolved[s]]
    /\ UNCHANGED <<session_vars, face_mesh, averaged, head, clients, budget>>

(* main.py:122-123 as module-level names that every handler shares. *)
Connect_global(s) ==
    /\ pc[s] \in {"idle", "closed", "crashed"}
    /\ s \in clients
    /\ pc' = [pc EXCEPT ![s] = "receive"]
    /\ calibration_frames' = [t \in Sessions |-> CALIBRATION_FRAMES]
    /\ calibration_angles' = [t \in Sessions |-> <<>>]
    /\ baseline_pitch' = [t \in Sessions |-> Unbound]
    /\ baseline_yaw' = [t \in Sessions |-> Unbound]
    /\ baseline_roll' = [t \in Sessions |-> Unbound]
    /\ image_data' = [image_data EXCEPT ![s] = Unbound]
    /\ status' = [status EXCEPT ![s] = Unbound]
    /\ error' = [error EXCEPT ![s] = <<>>]
    /\ estimates' = [estimates EXCEPT ![s] = 0]
    /\ replies' = [replies EXCEPT ![s] = 0]
    /\ finalized' = [finalized EXCEPT ![s] = 0]
    /\ calculating' = [calculating EXCEPT ![s] = 0]
    /\ classified' = [classified EXCEPT ![s] = FALSE]
    /\ previous' = [previous EXCEPT ![s] = Held(s)]
    /\ movesLeft' = [movesLeft EXCEPT ![s] = budget.moves[s]]
    /\ unsolvedLeft' = [unsolvedLeft EXCEPT ![s] = budget.unsolved[s]]
    /\ UNCHANGED <<face_mesh, averaged, head, clients, budget>>

(* main.py:120-123: accept, and the locals of a new session. *)
Connect(s) ==
    /\ pc[s] \in {"idle", "closed", "crashed"}
    /\ s \in clients
    /\ pc' = [pc EXCEPT ![s] = "receive"]
    /\ calibration_frames' =
           [calibration_frames EXCEPT ![s] = CALIBRATION_FRAMES]
    /\ calibration_angles' = [calibration_angles EXCEPT ![s] = <<>>]
    /\ baseline_pitch' = [baseline_pitch EXCEPT ![s] = Unbound]
    /\ baseline_yaw' = [baseline_yaw EXCEPT ![s] = Unbound]
    /\ baseline_roll' = [baseline_roll EXCEPT ![s] = Unbound]
    /\ image_data' = [image_data EXCEPT ![s] = Unbound]
    /\ status' = [status EXCEPT ![s] = Unbound]
    /\ error' = [error EXCEPT ![s] = <<>>]
    /\ estimates' = [estimates EXCEPT ![s] = 0]
    /\ replies' = [replies EXCEPT ![s] = 0]
    /\ finalized' = [finalized EXCEPT ![s] = 0]
    /\ calculating' = [calculating EXCEPT ![s] = 0]
    /\ classified' = [classified EXCEPT ![s] = FALSE]
    /\ previous' = [previous EXCEPT ![s] = Held(s)]
    /\ movesLeft' = [movesLeft EXCEPT ![s] = budget.moves[s]]
    /\ unsolvedLeft' = [unsolvedLeft EXCEPT ![s] = budget.unsolved[s]]
    /\ UNCHANGED <<face_mesh, averaged, head, clients, budget>>

(* main.py:126-159: one frame, from receive_text to the status. *)
ReceiveFrame(s) ==
    /\ pc[s] = "receive"
    /\ \E sent \in Frames :
        LET reached == ~b64decode(sent.payload).raised /\ sent.image # "none"
            f == IF reached THEN process(face_mesh, sent) ELSE sent
        IN
        /\ Sendable(s, sent)
        /\ image_data' = [image_data EXCEPT ![s] = Bound(f)]
        /\ face_mesh' = IF reached THEN tracker(face_mesh, sent) ELSE face_mesh
        /\ replies' = [replies EXCEPT ![s] = 0]
        /\ estimates' = [estimates EXCEPT ![s] =
               IF process_frame(f).type = "tuple" THEN @ + 1 ELSE @]
        /\ unsolvedLeft' = [unsolvedLeft EXCEPT ![s] =
               IF f = UnsolvedFrame THEN @ - 1 ELSE @]
        /\ movesLeft' = [movesLeft EXCEPT ![s] =
               IF f.solved /\ f.pose # head[s] THEN @ - 1 ELSE @]
        /\ head' = [head EXCEPT ![s] = IF f.solved THEN f.pose ELSE @]
        /\ previous' = [previous EXCEPT ![s] = "nothing"]
        /\ UNCHANGED <<clients, budget, sent_vars, averaged>>
        /\ \/ TextResult(s, process_frame(f))
           \/ Collect(s, process_frame(f))
           \/ Finalize(s, process_frame(f))
           \/ Compare(s, process_frame(f))

(* main.py:160.  The frame and its status are dead once the status is     *)
(* sent: the next iteration assigns both before it reads either, so they  *)
(* are held only while a frame is in the handler.                         *)
SendStatus(s) ==
    /\ pc[s] = "send"
    /\ replies' = [replies EXCEPT ![s] = @ + 1]
    /\ pc' = [pc EXCEPT ![s] = "receive"]
    /\ image_data' = [image_data EXCEPT ![s] = Unbound]
    /\ status' = [status EXCEPT ![s] = Unbound]
    /\ calculating' = [calculating EXCEPT ![s] =
           IF status[s] = CALCULATING THEN @ + 1 ELSE @]
    /\ classified' = [classified EXCEPT ![s] =
           @ \/ status[s] \in {FOCUSED, NOT_FOCUSED}]
    /\ UNCHANGED <<session_vars, error, estimates, finalized, previous,
                   face_mesh, averaged, env_vars>>

(* main.py:161-162: the client goes away while the handler awaits. *)
Disconnect(s) ==
    /\ pc[s] \in {"receive", "send"}
    /\ pc' = [pc EXCEPT ![s] = "closed"]
    /\ UNCHANGED <<session_vars, image_data, status, error, estimates,
                   replies, finalized, sent_vars, previous, face_mesh,
                   averaged, env_vars>>

(* main.py:139-141 on a calibration set of ten times the same angle. *)
Average ==
    /\ averaged.mean = Unbound
    /\ averaged' = [averaged EXCEPT !.mean =
           Bound(np_mean([k \in 1..CALIBRATION_FRAMES |-> averaged.angle],
                         averaged.order))]
    /\ UNCHANGED <<pc, session_vars, image_data, status, error, estimates,
                   replies, finalized, sent_vars, previous, face_mesh,
                   env_vars>>

Start(who, bounds) ==
    /\ pc = [s \in Sessions |-> "idle"]
    /\ calibration_frames = [s \in Sessions |-> CALIBRATION_FRAMES]
    /\ calibration_angles = [s \in Sessions |-> <<>>]
    /\ baseline_pitch = [s \in Sessions |-> Unbound]
    /\ baseline_yaw = [s \in Sessions |-> Unbound]
    /\ baseline_roll = [s \in Sessions |-> Unbound]
    /\ image_data = [s \in Sessions |-> Unbound]
    /\ status = [s \in Sessions |-> Unbound]
    /\ error = [s \in Sessions |-> <<>>]
    /\ estimates = [s \in Sessions |-> 0]
    /\ replies = [s \in Sessions |-> 0]
    /\ finalized = [s \in Sessions |-> 0]
    /\ calculating = [s \in Sessions |-> 0]
    /\ classified = [s \in Sessions |-> FALSE]
    /\ previous = [s \in Sessions |-> "nothing"]
    /\ face_mesh = "detecting"
    /\ averaged \in bounds.angles
    /\ head \in [Sessions -> bounds.poses]
    /\ \A s \in Sessions : s \notin who => head[s] = Rest
    /\ movesLeft = [s \in Sessions |-> 0]
    /\ unsolvedLeft = [s \in Sessions |-> 0]
    /\ clients = who
    /\ budget = bounds

(* One client, explored in depth; the other handler stays idle. *)
Init ==
    Start({"s1"}, [moves |-> [s \in Sessions |-> MaxMoves],
                   unsolved |-> [s \in Sessions |-> MaxUnsolved],
                   estimates |-> [s \in Sessions |-> MaxEstimates],
                   poses |-> Poses,
                   failing |-> FailingFrames,
                   faint |-> {},
                   angles |-> Angles(0, 0, {"pairwise"})])

Next ==
    \E s \in Sessions :
        \/ Connect(s)
        \/ ReceiveFrame(s)
        \/ SendStatus(s)
        \/ Disconnect(s)

Spec == Init /\ [][Next]_vars

TwoPoses == {Rest, <<Deg(50), Deg(0), Deg(0)>>}

(* Two clients at once, their handlers interleaved at every await; every  *)
(* frame of theirs decodes to an image with a face.                         *)
InitTwo ==
    Start(Sessions,
          [moves |-> [s \in Sessions |-> IF s = "s1" THEN TwoMoves ELSE 0],
           unsolved |-> [s \in Sessions |->
                             IF s = "s1" THEN TwoUnsolved ELSE 0],
           estimates |-> [s \in Sessions |-> TwoEstimates],
           poses |-> TwoPoses,
           failing |-> {},
           faint |-> {},
           angles |-> Angles(0, 0, {"pairwise"})])

SpecTwo == InitTwo /\ [][Next]_vars

(* Two clients in front of the one mesh, each at rest; a frame of theirs   *)
(* shows a face, a faint face or none.                                      *)
InitShared ==
    Start(Sessions,
          [moves |-> [s \in Sessions |-> 0],
           unsolved |-> [s \in Sessions |-> 0],
           estimates |-> [s \in Sessions |-> SharedEstimates],
           poses |-> {Rest},
           failing |-> {Frame("base64", "bgr", 0, FALSE, Rest)},
           faint |-> {FaintFrame},
           angles |-> Angles(0, 0, {"pairwise"})])

SpecShared == InitShared /\ [][Next]_vars

(* The baseline of a calibration set of ten times the same angle, for      *)
(* every angle from 0.1 to MaxTenths / 10 degrees; no client connects.     *)
InitMean ==
    Start({}, [moves |-> [s \in Sessions |-> 0],
               unsolved |-> [s \in Sessions |-> 0],
               estimates |-> [s \in Sessions |-> 0],
               poses |-> {Rest},
               failing |-> {},
               faint |-> {},
               angles |-> Angles(1, MaxTenths, Orders)])

SpecMean == InitMean /\ [][Average]_vars

----------------------------------------------------------------------------
(* Vocabulary of the properties *)

Open(s) == pc[s] \in {"receive", "send"}

NewSession(s) == pc[s] \notin {"receive", "send"} /\ pc'[s] = "receive"

(* The handler of s takes a frame in this step. *)
Takes(s) == pc[s] = "receive" /\ IsBound(image_data'[s])

Malformed(f) == b64decode(f.payload).raised \/ f.image = "none"
NoFace(f) == ~Malformed(f) /\ f.faces = 0
Unsolved(f) == ~Malformed(f) /\ f.faces > 0 /\ ~f.solved
Estimated(f) == ~Malformed(f) /\ f.faces > 0 /\ f.solved

BaselineBound(s) ==
    /\ IsBound(baseline_pitch[s])
    /\ IsBound(baseline_yaw[s])
    /\ IsBound(baseline_roll[s])

SessionUnchanged(s) ==
    /\ calibration_frames'[s] = calibration_frames[s]
    /\ calibration_angles'[s] = calibration_angles[s]
    /\ baseline_pitch'[s] = baseline_pitch[s]
    /\ baseline_yaw'[s] = baseline_yaw[s]
    /\ baseline_roll'[s] = baseline_roll[s]

(* What the handler of s makes of frame f from its own locals alone. *)
OwnStatus(s, f) ==
    IF IsStr(process_frame(f)) THEN process_frame(f).val
    ELSE IF calibration_frames[s] # 0 THEN CALCULATING
    ELSE Classify(f.pose, ValueOf(baseline_pitch[s]),
                  ValueOf(baseline_yaw[s]), ValueOf(baseline_roll[s]))

OwnRemaining(s, f) ==
    IF ~IsStr(process_frame(f)) /\ calibration_frames[s] # 0
    THEN calibration_frames[s] - 1
    ELSE calibration_frames[s]

(* The faces the mesh finds in f when f is the first frame it is given. *)
Alone(f) == process("detecting", IF f.faint THEN FaintFrame ELSE f).faces

AllEstimates(angles) ==
    \A k \in 1..Len(angles) : angles[k].type = "tuple"

----------------------------------------------------------------------------
(* C1: a classification status ("Focused" or "Not Focused") is held for    *)
(* sending only in a session that observed 10 pose estimates before the    *)
(* classified one and holds a baseline computed from them; the comparison   *)
(* of main.py:148-150 never reads an unbound baseline.                      *)
C1_ClassificationNeedsBaseline ==
    \A s \in Sessions :
        /\ error[s] # <<"UnboundLocalError">>
        /\ status[s] \in {FOCUSED, NOT_FOCUSED} =>
               /\ estimates[s] - 1 >= CALIBRATION_FRAMES
               /\ BaselineBound(s)
               /\ finalized[s] = 1
               /\ Len(calibration_angles[s]) = CALIBRATION_FRAMES
               /\ AllEstimates(calibration_angles[s])

(* The first classification of a session is about to be sent. *)
C1_Witness ==
    \E s \in Sessions :
        /\ pc[s] = "send"
        /\ status[s] \in {FOCUSED, NOT_FOCUSED}
        /\ estimates[s] = CALIBRATION_FRAMES + 1

(* C2: every frame received on an open session is answered by exactly one  *)
(* status message: a frame with no reply yet is either at the send_text of  *)
(* main.py:160 or was abandoned by the client's disconnect, and no frame    *)
(* gets a second reply.                                                     *)
C2_OneStatusPerFrame ==
    \A s \in Sessions :
        /\ replies[s] <= 1
        /\ (IsBound(image_data[s]) /\ replies[s] = 0) =>
               pc[s] \in {"send", "closed"}
        /\ (pc[s] = "receive") => ~IsBound(image_data[s])

(* C3: no outcome of a frame ends the session: the handler leaves the loop *)
(* of main.py:124 only by the client's disconnect.                          *)
C3_OnlyDisconnectEndsSession ==
    [][\A s \in Sessions :
           (Open(s) /\ ~Open(s)') => (pc'[s] = "closed" /\ error'[s] = <<>>)]_vars

(* C4: a frame with a face whose pose solve does not converge is answered  *)
(* "Pose Not Detected" and leaves the remaining count, the calibration set  *)
(* and the baseline as they were.                                           *)
C4_UnsolvedIsDetectionFailure ==
    [][\A s \in Sessions :
           (Takes(s) /\ Unsolved(ValueOf(image_data'[s]))) =>
               /\ pc'[s] = "send"
               /\ status'[s] = POSE_NOT_DETECTED
               /\ SessionUnchanged(s)]_vars

(* C5: a frame with no face is answered "Pose Not Detected" and leaves the *)
(* remaining count, the calibration set and the baseline as they were.      *)
C5_NoFaceLeavesSession ==
    [][\A s \in Sessions :
           (Takes(s) /\ NoFace(ValueOf(image_data'[s]))) =>
               /\ pc'[s] = "send"
               /\ status'[s] = POSE_NOT_DETECTED
               /\ SessionUnchanged(s)]_vars

(* A no-face frame was taken in the middle of a calibration. *)
C5_Witness ==
    \E s \in Sessions :
        /\ pc[s] = "send"
        /\ IsBound(image_data[s])
        /\ NoFace(ValueOf(image_data[s]))
        /\ status[s] = POSE_NOT_DETECTED
        /\ calibration_frames[s] = 3
        /\ Len(calibration_angles[s]) = 7

C7_TenSuccessfulEstimates ==
    \A s \in Sessions :
        /\ AllEstimates(calibration_angles[s])
        /\ (finalized[s] = 1) <=> (estimates[s] >= CALIBRATION_FRAMES)

(* C8: with the baseline computed, a pose estimate is answered "Focused"   *)
(* exactly when it is strictly less than 40 degrees from the baseline on    *)
(* each of pitch, yaw and roll, and "Not Focused" otherwise.                *)
C8_FocusedIffWithinForty ==
    [][\A s \in Sessions :
           (/\ Takes(s)
            /\ calibration_frames[s] = 0
            /\ Estimated(ValueOf(image_data'[s]))) =>
               LET p == ValueOf(image_data'[s]).pose
                   near(i, b) == /\ p[i] - ValueOf(b) < Deg(40)
                                 /\ ValueOf(b) - p[i] < Deg(40)
               IN  /\ pc'[s] = "send"
                   /\ status'[s] =
                          IF /\ near(1, baseline_pitch[s])
                             /\ near(2, baseline_yaw[s])
                             /\ near(3, baseline_roll[s])
                          THEN FOCUSED
                          ELSE NOT_FOCUSED]_vars

(* An estimate exactly 40 degrees from the baseline in pitch, and nearer   *)
(* on the other axes, is answered "Not Focused".                            *)
C8_Witness ==
    \E s \in Sessions :
        /\ pc[s] = "send"
        /\ status[s] = NOT_FOCUSED
        /\ BaselineBound(s)
        /\ IsBound(image_data[s])
        /\ LET p == ValueOf(image_data[s]).pose IN
               /\ p[1] - ValueOf(baseline_pitch[s]) = Deg(40)
               /\ p[2] = ValueOf(baseline_yaw[s])
               /\ p[3] = ValueOf(baseline_roll[s])

(* C9: within a session the baseline is computed at most once, and once it *)
(* is bound no later frame changes it.                                      *)
C9_BaselineImmutable ==
    [][\A s \in Sessions :
           /\ finalized'[s] <= 1
           /\ (BaselineBound(s) /\ ~NewSession(s)) =>
                  /\ baseline_pitch'[s] = baseline_pitch[s]
                  /\ baseline_yaw'[s] = baseline_yaw[s]
                  /\ baseline_roll'[s] = baseline_roll[s]
                  /\ finalized'[s] = finalized[s]]_vars

(* A second estimate after the baseline has been classified. *)
C9_Witness ==
    \E s \in Sessions :
        /\ pc[s] = "send"
        /\ BaselineBound(s)
        /\ finalized[s] = 1
        /\ estimates[s] = CALIBRATION_FRAMES + 2
        /\ status[s] \in {FOCUSED, NOT_FOCUSED}

(* C10: the remaining count of a session starts at 10, stays in 0..10,     *)
(* changes only by a decrement of one, and stays 0 once it is 0.            *)
C10_RemainingCountsDown ==
    [][\A s \in Sessions :
           /\ calibration_frames'[s] \in 0..10
           /\ NewSession(s) => calibration_frames'[s] = 10
           /\ ~NewSession(s) =>
                  /\ \/ calibration_frames'[s] = calibration_frames[s]
                     \/ calibration_frames'[s] = calibration_frames[s] - 1
                  /\ calibration_frames[s] = 0 => calibration_frames'[s] = 0]_vars

(* An estimate was taken with the count at 0, and the count is still 0. *)
C10_Witness ==
    \E s \in Sessions :
        /\ pc[s] = "send"
        /\ calibration_frames[s] = 0
        /\ estimates[s] > CALIBRATION_FRAMES

(* C11: an estimate taken while the remaining count is above 0, the one    *)
(* that brings it to 0 included, is answered "Calculating Face Angles";    *)
(* an estimate taken with the count at 0 is answered with a                 *)
(* classification.  So a session of estimates only is answered ten times   *)
(* "Calculating Face Angles" and with classifications from then on.        *)
C11_TransitionFrameStillCalculating ==
    [][\A s \in Sessions :
           (Takes(s) /\ Estimated(ValueOf(image_data'[s]))) =>
               /\ pc'[s] = "send"
               /\ status'[s] =
                      IF calibration_frames[s] > 0
                      THEN CALCULATING
                      ELSE Classify(ValueOf(image_data'[s]).pose,
                                    ValueOf(baseline_pitch[s]),
                                    ValueOf(baseline_yaw[s]),
                                    ValueOf(baseline_roll[s]))]_vars

(* C13: a connect always starts the session with remaining = 10, an empty  *)
(* calibration set and no baseline, whatever the connection held before;   *)
(* a disconnect sends nothing.                                              *)
C13_ConnectStartsFresh ==
    [][\A s \in Sessions :
           /\ NewSession(s) =>
                  /\ calibration_frames'[s] = 10
                  /\ calibration_angles'[s] = <<>>
                  /\ baseline_pitch'[s] = Unbound
                  /\ baseline_yaw'[s] = Unbound
                  /\ baseline_roll'[s] = Unbound
           /\ (Open(s) /\ pc'[s] = "closed") =>
                  /\ replies'[s] = replies[s]
                  /\ calculating'[s] = calculating[s]
                  /\ classified'[s] = classified[s]]_vars

(* A new session awaits its first frame on a connection whose earlier      *)
(* session was calibrated.                                                   *)
C13_Witness ==
    \E s \in Sessions :
        /\ pc[s] = "receive"
        /\ previous[s] = "calibrated"
        /\ calibration_frames[s] = 10

(* C14: a status held for sending is "Pose Not Detected", "Calculating     *)
(* Face Angles", "Focused", "Not Focused" or a text that begins with       *)
(* "Error:".                                                                 *)
C14_OnlyKnownStatuses ==
    \A s \in Sessions :
        pc[s] = "send" =>
            \/ status[s] \in
                   {POSE_NOT_DETECTED, CALCULATING, FOCUSED, NOT_FOCUSED}
            \/ status[s] # <<>> /\ Head(status[s]) = "Error:"

(* An "Error:" text is held for sending in a calibrated session. *)
C14_Witness ==
    \E s \in Sessions :
        /\ pc[s] = "send"
        /\ BaselineBound(s)
        /\ status[s] # <<>>
        /\ Head(status[s]) = "Error:"

(* C16: for every frame the handler takes, process_frame returns a str or  *)
(* a tuple of three angles.                                                  *)
C16_TwoOutcomeShapes ==
    \A s \in Sessions :
        IsBound(image_data[s]) =>
            process_frame(ValueOf(image_data[s])).type \in {"str", "tuple"}

(* C17: a frame is read only when no frame of the session is in the        *)
(* handler, and a status is sent only for the frame in the handler, once,  *)
(* which then leaves the handler: receiving and sending alternate.         *)
C17_ReceiveSendAlternate ==
    [][\A s \in Sessions :
           /\ Takes(s) =>
                  /\ image_data[s] = Unbound
                  /\ status[s] = Unbound
                  /\ replies[s] <= 1
           /\ replies'[s] = replies[s] + 1 =>
                  /\ IsBound(image_data[s])
                  /\ replies[s] = 0
                  /\ image_data'[s] = Unbound]_vars

(* A frame is in the handler after an earlier frame of the session was     *)
(* answered with a text result.                                              *)
C17_Witness ==
    \E s \in Sessions :
        /\ pc[s] = "send"
        /\ calculating[s] > 0
        /\ status[s] = POSE_NOT_DETECTED

(* C19: the length of the calibration set plus the remaining count is 10,  *)
(* and the set never holds more than 10.                                    *)
C19_SetPlusRemainingIsTen ==
    \A s \in Sessions :
        /\ Len(calibration_angles[s]) + calibration_frames[s] = 10
        /\ Len(calibration_angles[s]) <= 10

(* Estimates were taken after the set was full. *)
C19_Witness ==
    \E s \in Sessions :
        /\ Len(calibration_angles[s]) = 10
        /\ calibration_frames[s] = 0
        /\ estimates[s] = CALIBRATION_FRAMES + 2

(* C20: a session sends "Calculating Face Angles" at most 10 times and     *)
(* never after a classification; once its remaining count is 0 it stays 0. *)
C20_CalibratedIsAbsorbing ==
    [][\A s \in Sessions :
           /\ calculating'[s] <= 10
           /\ ~NewSession(s) =>
                  /\ classified[s] => calculating'[s] = calculating[s]
                  /\ classified[s] => status'[s] # CALCULATING
                  /\ calibration_frames[s] = 0 =>
                         calibration_frames'[s] = 0]_vars

(* A frame without a face is answered after a classification, in a session *)
(* that sent "Calculating Face Angles" ten times.                           *)
C20_Witness ==
    \E s \in Sessions :
        /\ pc[s] = "send"
        /\ classified[s]
        /\ calculating[s] = 10
        /\ status[s] = POSE_NOT_DETECTED

(* C12: with two sessions open and their steps interleaved, a step of one  *)
(* session leaves the remaining count, the calibration set, the baseline,  *)
(* the frame in hand and the status of the other as they were, and the     *)
(* status a session holds for a frame is the one its own locals and the    *)
(* frame give: what it would send if it ran alone.                          *)
C12_SessionsAreIsolated ==
    [][\A s \in Sessions :
           /\ pc'[s] = pc[s] =>
                  /\ SessionUnchanged(s)
                  /\ image_data'[s] = image_data[s]
                  /\ status'[s] = status[s]
                  /\ calculating'[s] = calculating[s]
                  /\ classified'[s] = classified[s]
           /\ Takes(s) =>
                  /\ calibration_frames'[s] =
                         OwnRemaining(s, ValueOf(image_data'[s]))
                  /\ pc'[s] = "send" =>
                         status'[s] = OwnStatus(s, ValueOf(image_data'[s]))]_vars

(* Both sessions hold a frame at once, each calibrated on its own pose,    *)
(* and the same pose is "Not Focused" for one and "Focused" for the other. *)
C12_Witness ==
    /\ pc["s1"] = "send"
    /\ pc["s2"] = "send"
    /\ BaselineBound("s1")
    /\ BaselineBound("s2")
    /\ baseline_pitch["s1"] # baseline_pitch["s2"]
    /\ ValueOf(image_data["s1"]).pose = ValueOf(image_data["s2"]).pose
    /\ status["s1"] = NOT_FOCUSED
    /\ status["s2"] = FOCUSED

(* C18: the faces the shared mesh finds in a frame, and so whether the     *)
(* frame is answered "Pose Not Detected", are those it finds in that frame *)
(* alone, whatever frames of this or another session it was given before.  *)
C18_DetectionDependsOnFrameOnly ==
    \A s \in Sessions :
        (IsBound(image_data[s]) /\ ~Malformed(ValueOf(image_data[s]))) =>
            /\ ValueOf(image_data[s]).faces = Alone(ValueOf(image_data[s]))
            /\ pc[s] = "send" =>
                   (status[s] = POSE_NOT_DETECTED
                        <=> Alone(ValueOf(image_data[s])) = 0)

(* C15: the baseline is the mean of the 10 collected estimates as         *)
(* main.py:139-141 computes it, and when the 10 estimates are the same     *)
(* angle the baseline equals that angle exactly.                            *)
C15_MeanOfIdenticalIsExact ==
    IsBound(averaged.mean) => ValueOf(averaged.mean) = averaged.angle

(* C15 as amended: the baseline is the mean as main.py:139-141 computes it *)
(* in binary64, and when the 10 estimates are the same whole number of     *)
(* degrees the baseline equals that angle exactly.                          *)
C15_MeanOfWholeDegreesIsExact ==
    (IsBound(averaged.mean) /\ averaged.tenths % 10 = 0) =>
        ValueOf(averaged.mean) = averaged.angle

(* The mean of ten times 45 degrees was taken. *)
C15_Witness ==
    /\ IsBound(averaged.mean)
    /\ averaged.tenths = 450
    /\ ValueOf(averaged.mean) = double(450)

====
